---- MODULE Spec2Model ----
(***************************************************************************)
(* Address search of location-weather-lookup: the query normaliser         *)
(* (buildSmartQuery), the result filter and ranker (searchAddresses) and   *)
(* the debounced search orchestrator (AddressSearch).                      *)
(*                                                                         *)
(* A JavaScript string is a sequence of one-character strings.             *)
(***************************************************************************)
EXTENDS Integers, Sequences, FiniteSets, Bags, TLC

(***************************************************************************)
(* Characters and the regular expressions of buildSmartQuery               *)
(***************************************************************************)
LowerLetters == {"a", "b", "c", "d", "e", "f", "g", "h", "i", "j", "k", "l", "m",
                 "n", "o", "p", "q", "r", "s", "t", "u", "v", "w", "x", "y", "z"}

UpperLetters == {"A", "B", "C", "D", "E", "F", "G", "H", "I", "J", "K", "L", "M",
                 "N", "O", "P", "Q", "R", "S", "T", "U", "V", "W", "X", "Y", "Z"}

Digits == {"0", "1", "2", "3", "4", "5", "6", "7", "8", "9"}

\* \s of the regular expressions
IsSpace(c) == c \in {" ", "\t", "\n"}

\* \w of the regular expressions: [A-Za-z0-9_]
IsWordChar(c) == c \in LowerLetters \cup UpperLetters \cup Digits \cup {"_"}

LowerOf(c) ==
    CASE c = "A" -> "a" [] c = "B" -> "b" [] c = "C" -> "c" [] c = "D" -> "d"
      [] c = "E" -> "e" [] c = "F" -> "f" [] c = "G" -> "g" [] c = "H" -> "h"
      [] c = "I" -> "i" [] c = "J" -> "j" [] c = "K" -> "k" [] c = "L" -> "l"
      [] c = "M" -> "m" [] c = "N" -> "n" [] c = "O" -> "o" [] c = "P" -> "p"
      [] c = "Q" -> "q" [] c = "R" -> "r" [] c = "S" -> "s" [] c = "T" -> "t"
      [] c = "U" -> "u" [] c = "V" -> "v" [] c = "W" -> "w" [] c = "X" -> "x"
      [] c = "Y" -> "y" [] c = "Z" -> "z" [] OTHER -> c

\* String.prototype.toLowerCase
ToLowerCase(s) == [i \in 1..Len(s) |-> LowerOf(s[i])]

\* String.prototype.trim
RECURSIVE TrimStart(_)
TrimStart(s) == IF s # <<>> /\ IsSpace(Head(s)) THEN TrimStart(Tail(s)) ELSE s

RECURSIVE TrimEnd(_)
TrimEnd(s) ==
    IF s # <<>> /\ IsSpace(s[Len(s)]) THEN TrimEnd(SubSeq(s, 1, Len(s) - 1)) ELSE s

Trim(s) == TrimEnd(TrimStart(s))

\* .replace(/,/g, ' ')
ReplaceCommas(s) == [i \in 1..Len(s) |-> IF s[i] = "," THEN " " ELSE s[i]]

\* .replace(/\s+/g, ' '): every maximal run of whitespace becomes one space
RECURSIVE CollapseSpaces(_)
CollapseSpaces(s) ==
    IF s = <<>> THEN <<>>
    ELSE IF IsSpace(Head(s))
         THEN <<" ">> \o CollapseSpaces(TrimStart(s))
         ELSE <<Head(s)>> \o CollapseSpaces(Tail(s))

\* the characters of s before its first whitespace character
RECURSIVE FirstWord(_)
FirstWord(s) ==
    IF s = <<>> \/ IsSpace(Head(s)) THEN <<>> ELSE <<Head(s)>> \o FirstWord(Tail(s))

\* .split(/\s+/): the pieces between the maximal runs of whitespace
RECURSIVE SplitSpaces(_)
SplitSpaces(s) ==
    LET w    == FirstWord(s)
        rest == SubSeq(s, Len(w) + 1, Len(s))
    IN  IF rest = <<>> THEN <<w>> ELSE <<w>> \o SplitSpaces(TrimStart(rest))

\* word.replace(/[^\w]/g, '')
CleanWord(w) == SelectSeq(w, IsWordChar)

\* /^\d+$/
AllDigits(w) == w # <<>> /\ \A i \in 1..Len(w) : w[i] \in Digits

\* /^[a-zA-Z]{2,3}$/
ShortAlphaUpToThree(w) ==
    /\ Len(w) \in 2..3
    /\ \A i \in 1..Len(w) : w[i] \in LowerLetters \cup UpperLetters

\* /^[a-zA-Z]{1,4}$/
ShortAlphaFromOne(w) ==
    /\ Len(w) \in 1..4
    /\ \A i \in 1..Len(w) : w[i] \in LowerLetters \cup UpperLetters

\* /^[a-zA-Z]{2,4}$/
ShortAlpha(w) ==
    /\ Len(w) \in 2..4
    /\ \A i \in 1..Len(w) : w[i] \in LowerLetters \cup UpperLetters

directionAbbreviations ==
       (<<"n">> :> <<"n", "o", "r", "t", "h">>)
    @@ (<<"s">> :> <<"s", "o", "u", "t", "h">>)
    @@ (<<"e">> :> <<"e", "a", "s", "t">>)
    @@ (<<"w">> :> <<"w", "e", "s", "t">>)
    @@ (<<"n", "e">> :> <<"n", "o", "r", "t", "h", "e", "a", "s", "t">>)
    @@ (<<"n", "w">> :> <<"n", "o", "r", "t", "h", "w", "e", "s", "t">>)
    @@ (<<"s", "e">> :> <<"s", "o", "u", "t", "h", "e", "a", "s", "t">>)
    @@ (<<"s", "w">> :> <<"s", "o", "u", "t", "h", "w", "e", "s", "t">>)

streetTypeAbbreviations ==
       (<<"s", "t">> :> <<"s", "t", "r", "e", "e", "t">>)
    @@ (<<"a", "v", "e">> :> <<"a", "v", "e", "n", "u", "e">>)
    @@ (<<"a", "v">> :> <<"a", "v", "e", "n", "u", "e">>)
    @@ (<<"b", "l", "v", "d">> :> <<"b", "o", "u", "l", "e", "v", "a", "r", "d">>)
    @@ (<<"d", "r">> :> <<"d", "r", "i", "v", "e">>)
    @@ (<<"r", "d">> :> <<"r", "o", "a", "d">>)
    @@ (<<"l", "n">> :> <<"l", "a", "n", "e">>)
    @@ (<<"c", "t">> :> <<"c", "o", "u", "r", "t">>)
    @@ (<<"c", "i", "r">> :> <<"c", "i", "r", "c", "l", "e">>)
    @@ (<<"p", "l">> :> <<"p", "l", "a", "c", "e">>)
    @@ (<<"p", "k", "w", "y">> :> <<"p", "a", "r", "k", "w", "a", "y">>)
    @@ (<<"h", "w", "y">> :> <<"h", "i", "g", "h", "w", "a", "y">>)
    @@ (<<"s", "q">> :> <<"s", "q", "u", "a", "r", "e">>)
    @@ (<<"t", "e", "r">> :> <<"t", "e", "r", "r", "a", "c", "e">>)
    @@ (<<"t", "r", "l">> :> <<"t", "r", "a", "i", "l">>)
    @@ (<<"w", "a", "y">> :> <<"w", "a", "y">>)

\* The two tables are plain object literals, so table[cleanWord] also finds the
\* properties they inherit from Object.prototype.  cleanWord is lower case, and
\* the inherited names written in lower case only are constructor and __proto__;
\* the value found is truthy and join() writes it with String().
ObjectPrototypeText ==
       (<<"c", "o", "n", "s", "t", "r", "u", "c", "t", "o", "r">> :>
          <<"f", "u", "n", "c", "t", "i", "o", "n", " ", "O", "b", "j", "e", "c", "t",
            "(", ")", " ", "{", " ", "[", "n", "a", "t", "i", "v", "e", " ",
            "c", "o", "d", "e", "]", " ", "}">>)
    @@ (<<"_", "_", "p", "r", "o", "t", "o", "_", "_">> :>
          <<"[", "o", "b", "j", "e", "c", "t", " ", "O", "b", "j", "e", "c", "t", "]">>)

\* table[cleanWord], as the text join() writes for it; <<>> when it is undefined
Lookup(table, cleanWord) ==
    IF cleanWord \in DOMAIN table THEN table[cleanWord]
    ELSE IF cleanWord \in DOMAIN ObjectPrototypeText THEN ObjectPrototypeText[cleanWord]
    ELSE <<>>

\* the callback with the wildcard rule tried before the two tables
ExpandWordWildcardFirst(word) ==
    LET cleanWord == CleanWord(word)
    IN  IF word = <<>> THEN <<>>
        ELSE IF cleanWord = <<>> THEN <<>>
        ELSE IF AllDigits(cleanWord) THEN <<cleanWord>>
        ELSE IF ShortAlpha(cleanWord) THEN <<cleanWord \o <<"*">> >>
        ELSE IF Lookup(directionAbbreviations, cleanWord) # <<>>
             THEN <<Lookup(directionAbbreviations, cleanWord)>>
        ELSE IF Lookup(streetTypeAbbreviations, cleanWord) # <<>>
             THEN <<Lookup(streetTypeAbbreviations, cleanWord)>>
        ELSE <<cleanWord>>

\* the body of words.forEach: what one word pushes onto expandedWords
ExpandWord(word) ==
    LET cleanWord == CleanWord(word)
    IN  IF word = <<>> THEN <<>>
        ELSE IF cleanWord = <<>> THEN <<>>
        ELSE IF AllDigits(cleanWord) THEN <<cleanWord>>
        ELSE IF Lookup(directionAbbreviations, cleanWord) # <<>>
             THEN <<Lookup(directionAbbreviations, cleanWord)>>
        ELSE IF Lookup(streetTypeAbbreviations, cleanWord) # <<>>
             THEN <<Lookup(streetTypeAbbreviations, cleanWord)>>
        ELSE IF ShortAlpha(cleanWord) THEN <<cleanWord \o <<"*">> >>
        ELSE <<cleanWord>>

RECURSIVE ExpandWords(_)
ExpandWords(words) ==
    IF words = <<>> THEN <<>>
    ELSE ExpandWord(Head(words)) \o ExpandWords(Tail(words))

\* Array.prototype.join(' ')
RECURSIVE JoinSpace(_)
JoinSpace(ws) ==
    IF ws = <<>> THEN <<>>
    ELSE IF Len(ws) = 1 THEN Head(ws)
    ELSE Head(ws) \o <<" ">> \o JoinSpace(Tail(ws))

buildSmartQuery(input) ==
    LET normalized == ToLowerCase(Trim(CollapseSpaces(ReplaceCommas(input))))
    IN  JoinSpace(ExpandWords(SplitSpaces(normalized)))


(***************************************************************************)
(* Geocoder records, the filter and the ranking of searchAddresses         *)
(***************************************************************************)
\* a provider record without an address breakdown (place.address undefined)
NoAddress == [undefined |-> TRUE]

\* an address field that is absent is the empty string: falsy, as undefined is
Address(house_number, road, building, state) ==
    [house_number |-> house_number, road |-> road, building |-> building,
     amenity |-> "", shop |-> "", office |-> "", state |-> state]

Place(name, lat, lon, type, address) ==
    [display_name |-> name, lat |-> lat, lon |-> lon, type |-> type, address |-> address]

\* parseFloat of the coordinate strings the provider sends
parseFloat(s) == CASE s = "0" -> 0 [] s = "1" -> 1 [] s = "2" -> 2

\* Math.sqrt(1-a) of a number a above 1, and all that is computed from it
NaN == -1

\* getDistance in metres: the value the haversine formula with R = 6371 gives
\* in IEEE 754 double arithmetic, rounded, on whole degrees 0..2 and for the
\* points (8, 0) and (-8, 180), which lie opposite each other on the globe.
\* It depends on the two latitudes and on the difference of the longitudes
\* only.  For the two opposite points a = sin(8)^2 + cos(8)^2 comes out as
\* 1 + 2^-52, so that Math.sqrt(1-a) is NaN.
HaversineMetres(latA, latB, dLon) ==
    CASE latA = 0 /\ latB = 0 -> (CASE dLon = 0 -> 0      [] dLon = 1 -> 111195 [] dLon = 2 -> 222390)
      [] latA = 0 /\ latB = 1 -> (CASE dLon = 0 -> 111195 [] dLon = 1 -> 157249 [] dLon = 2 -> 248629)
      [] latA = 0 /\ latB = 2 -> (CASE dLon = 0 -> 222390 [] dLon = 1 -> 248629 [] dLon = 2 -> 314475)
      [] latA = 1 /\ latB = 1 -> (CASE dLon = 0 -> 0      [] dLon = 1 -> 111178 [] dLon = 2 -> 222356)
      [] latA = 1 /\ latB = 2 -> (CASE dLon = 0 -> 111195 [] dLon = 1 -> 157225 [] dLon = 2 -> 248569)
      [] latA = 2 /\ latB = 2 -> (CASE dLon = 0 -> 0      [] dLon = 1 -> 111127 [] dLon = 2 -> 222254)
      [] latA = -8 /\ latB = -8 -> (CASE dLon = 0 -> 0)
      [] latA = -8 /\ latB = 0 -> (CASE dLon = 178 -> 19098325 [] dLon = 179 -> 19118650 [] dLon = 180 -> 19125527)
      [] latA = -8 /\ latB = 1 -> (CASE dLon = 178 -> 19205802 [] dLon = 179 -> 19228878 [] dLon = 180 -> 19236722)
      [] latA = -8 /\ latB = 2 -> (CASE dLon = 178 -> 19312128 [] dLon = 179 -> 19338792 [] dLon = 180 -> 19347917)
      [] latA = -8 /\ latB = 8 -> (CASE dLon = 180 -> NaN)
      [] latA = 0 /\ latB = 8 -> (CASE dLon = 0 -> 889559 [] dLon = 1 -> 896437 [] dLon = 2 -> 916761)
      [] latA = 1 /\ latB = 8 -> (CASE dLon = 0 -> 778364 [] dLon = 1 -> 786209 [] dLon = 2 -> 809285)
      [] latA = 2 /\ latB = 8 -> (CASE dLon = 0 -> 667170 [] dLon = 1 -> 676294 [] dLon = 2 -> 702959)
      [] latA = 8 /\ latB = 8 -> (CASE dLon = 0 -> 0)

getDistance(lat1, lon1, lat2, lon2) ==
    HaversineMetres(IF lat1 <= lat2 THEN lat1 ELSE lat2,
                    IF lat1 <= lat2 THEN lat2 ELSE lat1,
                    IF lon1 <= lon2 THEN lon2 - lon1 ELSE lon1 - lon2)

\* the list without its entry for cities
excludeTypesWithoutCity == {"administrative", "state", "country", "county", "region"}

excludeTypes == {"administrative", "state", "country", "city", "county", "region"}

\* a filter that asks for a road name only
IsValidAddressRoadOnly(place) ==
    /\ place.address # NoAddress
    /\ place.type \notin excludeTypes
    /\ place.address.road # ""

\* the predicate of data.filter
IsValidAddress(place) ==
    LET addr == place.address
    IN  /\ addr # NoAddress
        /\ place.type \notin excludeTypes
        /\ \/ addr.road # ""
           \/ addr.building # "" \/ addr.amenity # "" \/ addr.shop # ""
           \/ addr.office # "" \/ addr.house_number # ""

\* no reference coordinate: this.userLocation is null
NoLocation == [null |-> TRUE]

\* userLocation && userLocation.latitude && userLocation.longitude
HasReference(userLocation) ==
    /\ userLocation # NoLocation
    /\ userLocation.latitude # 0
    /\ userLocation.longitude # 0

\* place.distance = getDistance(...)
WithDistance(place, userLocation) ==
    [distance |-> getDistance(userLocation.latitude, userLocation.longitude,
                              parseFloat(place.lat), parseFloat(place.lon))] @@ place

\* Array.prototype.sort is stable: an element goes after the elements that
\* compare less than or equal to it
RECURSIVE InsertByDistance(_, _)
InsertByDistance(sorted, place) ==
    IF sorted = <<>> THEN <<place>>
    ELSE IF place.distance - Head(sorted).distance < 0
         THEN <<place>> \o sorted
         ELSE <<Head(sorted)>> \o InsertByDistance(Tail(sorted), place)

RECURSIVE SortByDistance(_)
SortByDistance(places) ==
    IF places = <<>> THEN <<>>
    ELSE InsertByDistance(SortByDistance(SubSeq(places, 1, Len(places) - 1)),
                          places[Len(places)])

\* what searchAddresses returns for the provider's response data
FilterAndRankNearest(data, userLocation) ==
    LET validAddresses == SelectSeq(data, IsValidAddress)
        sorted == SortByDistance([i \in 1..Len(validAddresses) |->
                                     WithDistance(validAddresses[i], userLocation)])
    IN  IF HasReference(userLocation)
        THEN IF Len(sorted) > 1 THEN <<sorted[1]>> ELSE sorted
        ELSE validAddresses

FilterAndRank(data, userLocation) ==
    LET validAddresses == SelectSeq(data, IsValidAddress)
    IN  IF HasReference(userLocation)
        THEN SortByDistance([i \in 1..Len(validAddresses) |->
                                 WithDistance(validAddresses[i], userLocation)])
        ELSE validAddresses


(***************************************************************************)
(* The environment: what the user types, what the geocoder answers, where  *)
(* the IP geolocation puts the user                                        *)
(***************************************************************************)
\* input events handled in one run
MaxInputs == 3

\* values of the address field when an input event arrives
RawInputs ==
    { <<" ", "a", "b", " ">>,           \* " ab "  two characters once trimmed
      <<"1", "2", " ", "S", "t">>,      \* "12 St"
      <<".", ".", ".">> }               \* "..."   nothing but punctuation

HouseNear == Place("1 Elm Street", "1", "1", "house", Address("1", "Elm Street", "", "Ohio"))

HouseFar == Place("9 Elm Street", "2", "2", "house", Address("9", "Elm Street", "", "Ohio"))

CityHit == Place("Elmwood", "1", "1", "city", Address("", "Elm Street", "", "Ohio"))

StateOnly == Place("Ohio", "1", "2", "boundary", Address("", "", "", "Ohio"))

Unstructured == Place("Elm", "1", "1", "house", NoAddress)

\* the arrays response.json() gives
Responses ==
    { <<HouseFar, CityHit, HouseNear>>,
      <<StateOnly, Unstructured>> }

\* what getUserLocation resolves to
Locations == { [latitude |-> 1, longitude |-> 1], [latitude |-> 0, longitude |-> 1] }

(***************************************************************************)
(* AddressSearch                                                           *)
(***************************************************************************)
VARIABLES
    searchTimeout,          \* this.searchTimeout: 0 (null) or a timer handle
    currentSearchRequest,   \* this.currentSearchRequest: 0 (null) or an AbortController
    isLocationSelected,     \* this.isLocationSelected
    userLocation,           \* this.userLocation
    status,                 \* this.statusIcon.className
    suggestions,            \* the places listed in this.suggestionsList
    noAddressesShown,       \* the list shows "No valid addresses found..."
    timers,                 \* debounce timers set and neither cleared nor fired
    requests,               \* lookups whose promise is not settled yet
    successTimers,          \* pending 2-second timers of displayResults
    geolocation,            \* App.loadUserLocation: "pending", "loaded" or "failed"
    selectedAddress,        \* App.selectedAddress
    inputs,                 \* history: the trimmed text of every input event
    issued,                 \* history: the lookups sent to the geocoder
    outcomes,               \* history: how the promise of every lookup settled
    sink,                   \* history: the calls of onAutocompleteResults
    errors,                 \* history: the calls of console.error
    sinceSelect,            \* history: a suggestion was selected, no input event since
    weatherRequests,        \* App.fetchWeather: the bag of calls of getWeatherData not settled yet
    weatherDisplay,         \* what this.weatherDisplay shows, and for which request
    callArg,                \* a call of one function on its own: its arguments
    callResult,             \* what the call returned
    callState               \* "none", "called" or "returned"

\* a function called on its own, outside the search session
call == <<callArg, callResult, callState>>

\* the weather panel and the requests that will write to it
weather == <<weatherRequests, weatherDisplay>>

vars == <<searchTimeout, currentSearchRequest, isLocationSelected, userLocation, status,
          suggestions, noAddressesShown, timers, requests, successTimers, geolocation,
          selectedAddress, inputs, issued, outcomes, sink, errors, sinceSelect, weather, call>>

\* the search session, and what App keeps of it
session == <<searchTimeout, currentSearchRequest, isLocationSelected, userLocation, status,
             suggestions, noAddressesShown, timers, requests, successTimers, geolocation,
             selectedAddress, inputs, issued, outcomes, sink, errors, sinceSelect>>

\* the class names of the status icon
Idle == "search-status"

Loading == "search-status loading"

Success == "search-status success"

\* the 3 of val.length < 3
MinLength == 3

NoSelection == [null |-> TRUE]

\* the weather panel before any weather request has ended
NoWeather == [kind |-> "none"]

\* the number of input events handled so far; the n-th one has the handle n for
\* its timer and for the AbortController of its lookup
inputCount == Len(inputs)

\* the search session a new AddressSearch holds
InitSession ==
    /\ searchTimeout = 0
    /\ currentSearchRequest = 0
    /\ isLocationSelected = FALSE
    /\ userLocation = NoLocation
    /\ status = Idle
    /\ suggestions = <<>>
    /\ noAddressesShown = FALSE
    /\ timers = {}
    /\ requests = {}
    /\ successTimers = 0
    /\ geolocation = "pending"
    /\ selectedAddress = NoSelection
    /\ inputs = <<>>
    /\ issued = <<>>
    /\ outcomes = <<>>
    /\ sink = <<>>
    /\ errors = <<>>
    /\ sinceSelect = FALSE
    /\ weatherRequests = EmptyBag
    /\ weatherDisplay = NoWeather

Init ==
    /\ InitSession
    /\ callArg = [fn |-> "none"]
    /\ callResult = <<>>
    /\ callState = "none"

\* handleInput without its clearTimeout
ClearTimeoutSkipped(pending, handle) == pending

\* if (this.searchTimeout) { clearTimeout(this.searchTimeout); ... }
ClearTimeout(pending, handle) == {t \in pending : t.id # handle}

\* the handlers without their abort()
AbortSkipped(inflight, controller) == inflight

\* if (this.currentSearchRequest) { this.currentSearchRequest.abort(); ... }
Abort(inflight, controller) ==
    {IF r.id = controller THEN [r EXCEPT !.aborted = TRUE] ELSE r : r \in inflight}

\* setTimeout(..., 300) of handleInput: the timer keeps val in its closure;
\* atInput is history, the this.userLocation of the moment the timer is set
SetTimeout(pending, handle, val, atInput) ==
    pending \cup {[id |-> handle, val |-> val, atInput |-> atInput]}

\* val.length < 2
TooShortBelowTwo(val) == Len(val) < 2

\* if (val.length < 3)
TooShort(val) == Len(val) < MinLength

\* handleInput without its reset of the latch
LatchKept(latch) == latch

\* this.isLocationSelected = false
LatchAfterInput(latch) == FALSE

\* AddressSearch.handleInput
HandleInput(raw) ==
    LET val == Trim(raw)
        n   == inputCount + 1
    IN  /\ inputCount < MaxInputs
        /\ inputs' = Append(inputs, val)
        /\ requests' = Abort(requests, currentSearchRequest)
        /\ currentSearchRequest' = 0
        /\ isLocationSelected' = LatchAfterInput(isLocationSelected)
        /\ sinceSelect' = FALSE
        /\ status' = (IF TooShort(val) THEN Idle ELSE Loading)
        /\ IF TooShort(val)
           THEN /\ timers' = ClearTimeout(timers, searchTimeout)
                /\ searchTimeout' = 0
                /\ suggestions' = <<>>
                /\ noAddressesShown' = FALSE
           ELSE /\ timers' = SetTimeout(ClearTimeout(timers, searchTimeout), n, val, userLocation)
                /\ searchTimeout' = n
                /\ UNCHANGED <<suggestions, noAddressesShown>>
        /\ UNCHANGED <<userLocation, successTimers, geolocation, selectedAddress,
                       issued, outcomes, sink, errors>>
        /\ UNCHANGED <<call, weather>>

\* a callback that kept the reference coordinate of its input event
ReferenceAtInput(atInput, atFire) == atInput

\* the this.userLocation the callback passes to searchAddresses: read when the
\* callback runs
ReferenceForLookup(atInput, atFire) == atFire

\* the debounce callback up to its await: a new AbortController, and
\* searchAddresses up to its await of fetch; atInput is history
TimerFires(t) ==
    /\ t \in timers
    /\ timers' = timers \ {t}
    /\ currentSearchRequest' = t.id
    /\ requests' = requests \cup
           {[id |-> t.id, val |-> t.val, atInput |-> t.atInput,
             userLocation |-> ReferenceForLookup(t.atInput, userLocation), aborted |-> FALSE]}
    /\ issued' = Append(issued, [ev |-> t.id, at |-> inputCount, val |-> t.val,
                                 q |-> buildSmartQuery(t.val)])
    /\ UNCHANGED <<searchTimeout, isLocationSelected, userLocation, status, suggestions,
                   noAddressesShown, successTimers, geolocation, selectedAddress,
                   inputs, outcomes, sink, errors, sinceSelect>>
    /\ UNCHANGED <<call, weather>>


\* results.slice(0, 10)
MaxShown == 10

\* the debounce callback without its check of the latch
DiscardsResultsNever(latch) == FALSE

\* if (this.isLocationSelected) { ...; return; } after the await of searchAddresses
DiscardsResults(latch) == latch

\* displayResults showing the checkmark whatever the results
StatusAfterDisplayAlwaysSuccess(results) == Success

\* the status icon displayResults leaves
StatusAfterDisplay(results) == IF Len(results) = 0 THEN Idle ELSE Success

\* a list that shows every result
ShownAll(results) == results

\* results.slice(0, 10)
Shown(results) ==
    SubSeq(results, 1, IF Len(results) < MaxShown THEN Len(results) ELSE MaxShown)

\* a list that never shows the message
ShowsNoAddressesNever(results) == FALSE

\* if (results.length === 0): the list shows "No valid addresses found..."
ShowsNoAddresses(results) == Len(results) = 0

\* AddressSearch.displayResults
DisplayResults(results) ==
    /\ suggestions' = Shown(results)
    /\ noAddressesShown' = ShowsNoAddresses(results)
    /\ status' = StatusAfterDisplay(results)
    /\ successTimers' = IF Len(results) = 0 THEN successTimers ELSE successTimers + 1

\* the debounce callback after searchAddresses has resolved: the response data
\* arrived, was filtered and ranked
Resolve(r, data) ==
    LET results == FilterAndRank(data, r.userLocation)
    IN  /\ r \in requests
        /\ requests' = requests \ {r}
        /\ IF DiscardsResults(isLocationSelected)
           THEN /\ status' = Idle
                /\ outcomes' = Append(outcomes, [ev |-> r.id, kind |-> "resolved"])
                /\ UNCHANGED <<suggestions, noAddressesShown, successTimers, sink,
                               currentSearchRequest>>
           ELSE /\ DisplayResults(results)
                /\ sink' = Append(sink, [ev |-> r.id, at |-> inputCount, results |-> results])
                /\ currentSearchRequest' = 0
                /\ outcomes' = Append(outcomes, [ev |-> r.id, kind |-> "resolved"])
        /\ UNCHANGED <<searchTimeout, isLocationSelected, userLocation, timers, geolocation,
                       selectedAddress, inputs, issued, errors, sinceSelect>>
        /\ UNCHANGED <<call, weather>>

\* a catch block that reports every error
IsAbortErrorNever(name) == FALSE

\* a catch block that swallows every error
IsAbortErrorAlways(name) == TRUE

\* if (err.name === 'AbortError')
IsAbortError(name) == name = "AbortError"

\* the catch block of the debounce callback, for an error with this name
Catch(r, name) ==
    /\ r \in requests
    /\ requests' = requests \ {r}
    /\ status' = Idle
    /\ outcomes' = Append(outcomes, [ev |-> r.id, kind |-> name])
    /\ IF IsAbortError(name)
       THEN UNCHANGED <<errors, currentSearchRequest>>
       ELSE /\ errors' = Append(errors, [ev |-> r.id, name |-> name])
            /\ currentSearchRequest' = 0
    /\ UNCHANGED <<searchTimeout, isLocationSelected, userLocation, suggestions,
                   noAddressesShown, timers, successTimers, geolocation, selectedAddress,
                   inputs, issued, sink, sinceSelect>>
    /\ UNCHANGED <<call, weather>>

\* a payload that leaves the structured address out
SelectionWithoutAddress(place) ==
    [latitude |-> parseFloat(place.lat), longitude |-> parseFloat(place.lon),
     display_name |-> place.display_name, address |-> NoAddress, type |-> place.type]

\* the payload of onAddressSelect
Selection(place) ==
    [latitude |-> parseFloat(place.lat), longitude |-> parseFloat(place.lon),
     display_name |-> place.display_name, address |-> place.address, type |-> place.type]

\* App.fetchWeather up to its await: unless this.selectedAddress is null,
\* getWeatherData is called with its coordinates; pending is the bag of the
\* calls not settled yet
FetchWeather(pending, address) ==
    IF address = NoSelection
    THEN pending
    ELSE pending (+) SetToBag({[latitude |-> address.latitude,
                                longitude |-> address.longitude]})

\* AddressSearch.selectAddress, the onclick of the i-th suggestion, and
\* App.handleAddressSelect, which it calls: the assignment and fetchWeather up
\* to its await
SelectAddress(i) ==
    /\ i \in 1..Len(suggestions)
    /\ isLocationSelected' = TRUE
    /\ requests' = Abort(requests, currentSearchRequest)
    /\ currentSearchRequest' = 0
    /\ suggestions' = <<>>
    /\ noAddressesShown' = FALSE
    /\ status' = Idle
    /\ selectedAddress' = Selection(suggestions[i])
    /\ sinceSelect' = TRUE
    /\ weatherRequests' = FetchWeather(weatherRequests, selectedAddress')
    /\ UNCHANGED <<searchTimeout, userLocation, timers, successTimers, geolocation,
                   inputs, issued, outcomes, sink, errors>>
    /\ UNCHANGED <<call, weatherDisplay>>

\* a timer callback that leaves the checkmark
StatusAfterSuccessTimerKept(className) == className

\* if (this.statusIcon.className === 'search-status success') { ... 'search-status' }
StatusAfterSuccessTimer(className) == IF className = Success THEN Idle ELSE className

\* the 2-second timer of displayResults
SuccessTimerFires ==
    /\ successTimers > 0
    /\ successTimers' = successTimers - 1
    /\ status' = StatusAfterSuccessTimer(status)
    /\ UNCHANGED <<searchTimeout, currentSearchRequest, isLocationSelected, userLocation,
                   suggestions, noAddressesShown, timers, requests, geolocation,
                   selectedAddress, inputs, issued, outcomes, sink, errors, sinceSelect>>
    /\ UNCHANGED <<call, weather>>

\* App.loadUserLocation, getUserLocation resolved: AddressSearch.setUserLocation
LocationLoaded(location) ==
    /\ geolocation = "pending"
    /\ geolocation' = "loaded"
    /\ userLocation' = location
    /\ UNCHANGED <<searchTimeout, currentSearchRequest, isLocationSelected, status,
                   suggestions, noAddressesShown, timers, requests, successTimers,
                   selectedAddress, inputs, issued, outcomes, sink, errors, sinceSelect>>
    /\ UNCHANGED <<call, weather>>

\* a catch block that falls back on a coordinate of its own
LocationOnFailureDefault(location) == [latitude |-> 1, longitude |-> 1]

\* the catch block of loadUserLocation never calls setUserLocation: the
\* this.userLocation of AddressSearch stays what it was
LocationOnFailure(location) == location

\* App.loadUserLocation, getUserLocation rejected: the catch block
LocationFails ==
    /\ geolocation = "pending"
    /\ geolocation' = "failed"
    /\ userLocation' = LocationOnFailure(userLocation)
    /\ errors' = Append(errors, [ev |-> 0, at |-> inputCount, name |-> "IP geolocation error"])
    /\ UNCHANGED <<searchTimeout, currentSearchRequest, isLocationSelected,
                   status, suggestions, noAddressesShown, timers, requests, successTimers,
                   selectedAddress, inputs, issued, outcomes, sink, sinceSelect>>
    /\ UNCHANGED <<call, weather>>

Input == \E raw \in RawInputs : HandleInput(raw)

Debounced == \E t \in timers : TimerFires(t)

\* the geocoder answers a lookup nobody aborted
LookupSucceeds == \E r \in requests : ~r.aborted /\ \E data \in Responses : Resolve(r, data)

\* fetch rejects an aborted lookup with an AbortError
LookupAborted == \E r \in requests : r.aborted /\ Catch(r, "AbortError")

\* the network fails, or the response is no JSON array: a TypeError or SyntaxError
LookupFails == \E r \in requests : ~r.aborted /\ Catch(r, "TypeError")

Select == \E i \in 1..MaxShown : SelectAddress(i)

Located == \E location \in Locations : LocationLoaded(location)

\* getWeatherData resolved: this.weatherDisplay.render(weatherData), which
\* shows the coordinates the data is for
Render(r) == [kind |-> "data", request |-> r]

\* getWeatherData rejected, or render threw: this.weatherDisplay.showError(...)
ShowError(r) == [kind |-> "error", request |-> r]

\* App.fetchWeather after its await
WeatherSettles(r, shown) ==
    /\ BagIn(r, weatherRequests)
    /\ weatherRequests' = weatherRequests (-) SetToBag({r})
    /\ weatherDisplay' = shown
    /\ UNCHANGED <<session, call>>

\* the weather service answers a request, whichever was sent first
WeatherArrives == \E r \in BagToSet(weatherRequests) : WeatherSettles(r, Render(r))

\* the request fails, or the response has no record of the hour
WeatherFails == \E r \in BagToSet(weatherRequests) : WeatherSettles(r, ShowError(r))

\* the steps of the search session; the answers of the weather service, which
\* leave the search session as it is, are steps of NextApp
Next ==
    \/ Input
    \/ Debounced
    \/ LookupSucceeds
    \/ LookupAborted
    \/ LookupFails
    \/ Select
    \/ SuccessTimerFires
    \/ Located
    \/ LocationFails

\* the browser's fetch: abort() rejects the lookup
Spec == Init /\ [][Next]_vars

\* a transport that does not act on the abort signal: the aborted lookup ends as
\* if nobody had aborted it
AbortIgnoredSuccess == \E r \in requests : r.aborted /\ \E data \in Responses : Resolve(r, data)

AbortIgnoredFailure == \E r \in requests : r.aborted /\ Catch(r, "TypeError")

NextAbortIgnored == Next \/ AbortIgnoredSuccess \/ AbortIgnoredFailure

SpecAbortIgnored == Init /\ [][NextAbortIgnored]_vars


(***************************************************************************)
(* The search session and the weather panel                                *)
(***************************************************************************)
\* input events handled in one run when the weather requests are followed
MaxInputsApp == 2

InputApp == inputCount < MaxInputsApp /\ Input

\* the steps of the search session, which only start weather requests, and the
\* answers of the weather service, which leave the search session as it is
NextApp ==
    \/ InputApp
    \/ Debounced
    \/ LookupSucceeds
    \/ LookupAborted
    \/ LookupFails
    \/ Select
    \/ SuccessTimerFires
    \/ Located
    \/ LocationFails
    \/ WeatherArrives
    \/ WeatherFails

SpecApp == Init /\ [][NextApp]_vars


(***************************************************************************)
(* Timers that fire and a geocoder that answers                            *)
(***************************************************************************)
\* input events handled in one run when progress is checked
MaxInputsFair == 2

InputFair == inputCount < MaxInputsFair /\ Input

\* the geocoder answers, or fetch rejects
LookupEnds == LookupSucceeds \/ LookupAborted \/ LookupFails

NextFair ==
    \/ InputFair
    \/ Debounced
    \/ LookupSucceeds
    \/ LookupAborted
    \/ LookupFails
    \/ Select
    \/ SuccessTimerFires
    \/ Located
    \/ LocationFails

\* the steps of Debounced, told by the timer that goes and the AbortController
\* that comes: the callback of a pending debounce timer starts
DebounceElapses ==
    \E t \in timers : timers' = timers \ {t} /\ currentSearchRequest' = t.id

\* the event loop runs a timer callback once its delay is over, and every
\* lookup ends: the geocoder answers or fetch rejects
SpecFair ==
    /\ Init
    /\ [][NextFair]_vars
    /\ WF_timers(DebounceElapses)
    /\ WF_vars(SuccessTimerFires)
    /\ WF_vars(LookupEnds)


(***************************************************************************)
(* A geocoder with more candidates than the list shows                     *)
(***************************************************************************)
\* input events handled in one run with such a geocoder
MaxInputsManyResults == 2

\* limit=50 lets the provider answer with up to 50 records: here 12, of which
\* the filter keeps 11
ManyResponses ==
    { <<HouseFar, HouseNear, HouseFar, HouseNear, CityHit, HouseFar, HouseNear,
        HouseFar, HouseNear, HouseFar, HouseNear, HouseFar>> }

InputManyResults == inputCount < MaxInputsManyResults /\ Input

LookupSucceedsMany ==
    \E r \in requests : ~r.aborted /\ \E data \in ManyResponses : Resolve(r, data)

NextManyResults ==
    \/ InputManyResults
    \/ Debounced
    \/ LookupSucceeds
    \/ LookupSucceedsMany
    \/ LookupAborted
    \/ LookupFails
    \/ Select
    \/ SuccessTimerFires
    \/ Located
    \/ LocationFails

SpecManyResults == Init /\ [][NextManyResults]_vars


(***************************************************************************)
(* searchAddresses on its own: the filter and the ranking applied to one   *)
(* response of the geocoder, for one reference coordinate                  *)
(***************************************************************************)
\* the length of the responses whose ranking is checked
MaxData == 3

West == Place("1 West Street", "1", "0", "house", Address("1", "West Street", "", "Ohio"))

East == Place("1 East Street", "1", "2", "house", Address("1", "East Street", "", "Ohio"))

North == Place("Town Hall", "2", "1", "building", Address("", "", "Town Hall", "Ohio"))

\* records at different places, two of them (West, East) as far from (1, 1)
RankPlaces == {HouseNear, HouseFar, CityHit, West, East, North}

\* the address breakdowns a record may carry
AddressCases ==
    { NoAddress,
      Address("", "", "", "Ohio"),
      Address("", "Elm Street", "", "Ohio"),
      Address("9", "", "", ""),
      Address("9", "Elm Street", "", "Ohio"),
      Address("", "", "Tower", ""),
      [Address("", "", "", "") EXCEPT !.amenity = "Cafe"],
      [Address("", "", "", "") EXCEPT !.shop = "Bakery"],
      [Address("", "", "", "") EXCEPT !.office = "Notary"] }

\* the place-type tags a record may carry
TypeCases ==
    {"administrative", "state", "country", "city", "county", "region", "house", "residential"}

\* records of every type with every address breakdown, at one place
FilterPlaces == {Place("x", "1", "1", t, a) : t \in TypeCases, a \in AddressCases}

RECURSIVE SeqsUpTo(_, _)
SeqsUpTo(S, n) ==
    IF n = 0 THEN {<<>>}
    ELSE LET shorter == SeqsUpTo(S, n - 1)
         IN  shorter \cup {Append(q, x) : q \in shorter, x \in S}

\* the reference coordinates: none, and points with and without a zero degree
References ==
    Locations \cup {NoLocation, [latitude |-> 2, longitude |-> 2],
                    [latitude |-> 1, longitude |-> 0]}

SearchCalls ==
    {[fn |-> "searchAddresses", data |-> d, userLocation |-> u] :
        d \in SeqsUpTo(RankPlaces, MaxData) \cup SeqsUpTo(FilterPlaces, 2),
        u \in References}

InitSearchAddresses ==
    /\ InitSession
    /\ callArg \in SearchCalls
    /\ callResult = <<>>
    /\ callState = "called"

\* searchAddresses from the response to its return
SearchAddressesReturns ==
    /\ callState = "called"
    /\ callArg.fn = "searchAddresses"
    /\ callResult' = FilterAndRank(callArg.data, callArg.userLocation)
    /\ callState' = "returned"
    /\ UNCHANGED <<callArg, session, weather>>

SpecSearchAddresses == InitSearchAddresses /\ [][SearchAddressesReturns]_vars

(***************************************************************************)
(* getDistance on its own                                                  *)
(***************************************************************************)
\* whole degrees around (1, 1), and two points opposite each other
Coordinates ==
    {[latitude |-> lat, longitude |-> lon] : lat \in 0..2, lon \in 0..2}
        \cup {[latitude |-> 8, longitude |-> 0], [latitude |-> -8, longitude |-> 180]}

InitGetDistance ==
    /\ InitSession
    /\ callArg \in {[fn |-> "getDistance", a |-> a, b |-> b] : a \in Coordinates, b \in Coordinates}
    /\ callResult = <<>>
    /\ callState = "called"

GetDistanceReturns ==
    /\ callState = "called"
    /\ callArg.fn = "getDistance"
    /\ callResult' = getDistance(callArg.a.latitude, callArg.a.longitude,
                                 callArg.b.latitude, callArg.b.longitude)
    /\ callState' = "returned"
    /\ UNCHANGED <<callArg, session, weather>>

SpecGetDistance == InitGetDistance /\ [][GetDistanceReturns]_vars


(***************************************************************************)
(* buildSmartQuery on its own                                              *)
(***************************************************************************)
\* the length of the typed texts tried in full
MaxQueryLen == 5

\* the characters of those texts: letters that spell an abbreviation ("s",
\* "st") and words that are none, an upper-case letter, a digit, an underscore,
\* punctuation, the comma and the space
QueryChars == {"s", "t", "S", "1", "_", ".", ",", " "}

\* the abbreviations as typed with a capital and a period, and in capitals
TypedAbbreviations ==
    { <<"N", ".">>,
      <<"S", ".">>,
      <<"E", ".">>,
      <<"W", ".">>,
      <<"N", "e", ".">>,
      <<"N", "w", ".">>,
      <<"S", "e", ".">>,
      <<"S", "w", ".">>,
      <<"S", "t", ".">>,
      <<"A", "v", "e", ".">>,
      <<"A", "v", ".">>,
      <<"B", "l", "v", "d", ".">>,
      <<"D", "r", ".">>,
      <<"R", "d", ".">>,
      <<"L", "n", ".">>,
      <<"C", "t", ".">>,
      <<"C", "i", "r", ".">>,
      <<"P", "l", ".">>,
      <<"P", "k", "w", "y", ".">>,
      <<"H", "w", "y", ".">>,
      <<"S", "q", ".">>,
      <<"T", "e", "r", ".">>,
      <<"T", "r", "l", ".">>,
      <<"W", "a", "y", ".">>,
      <<"N">>,
      <<"S">>,
      <<"E">>,
      <<"W">>,
      <<"N", "E">>,
      <<"N", "W">>,
      <<"S", "E">>,
      <<"S", "W">>,
      <<"S", "T">>,
      <<"A", "V", "E">>,
      <<"A", "V">>,
      <<"B", "L", "V", "D">>,
      <<"D", "R">>,
      <<"R", "D">>,
      <<"L", "N">>,
      <<"C", "T">>,
      <<"C", "I", "R">>,
      <<"P", "L">>,
      <<"P", "K", "W", "Y">>,
      <<"H", "W", "Y">>,
      <<"S", "Q">>,
      <<"T", "E", "R">>,
      <<"T", "R", "L">>,
      <<"W", "A", "Y">> }

\* longer texts: the examples of the documentation, words with no abbreviation
\* in them, and the property names every object inherits
TypedExamples ==
    { <<"1", "2", "3", " ", "M", "a", "i", "n", " ", "S", "t", ".">>,
      <<"N", " ", "E", "l", "m", " ", "A", "v", "e">>,
      <<" ", " ", ",", ",", " ", "B", "r", "o", "a", "d", "w", "a", "y", " ", ",", ",">>,
      <<"b", "r", "o", "a", "d", "w", "a", "y">>,
      <<"B", "r", "o", "a", "d", "w", "a", "y">>,
      <<"s", "t", "s", "t", "s">>,
      <<"m", "a", "i", "n">>,
      <<"E", "l", "m">>,
      <<"1", "6", "0", "0", " ", "P", "e", "n", "n", "s", "y", "l", "v", "a", "n", "i", "a", " ", "A", "v", "e">>,
      <<"c", "o", "n", "s", "t", "r", "u", "c", "t", "o", "r">>,
      <<"_", "_", "p", "r", "o", "t", "o", "_", "_">>,
      <<"1", "2", "b">>,
      <<"a", "p", "t", "4">> }

QueryInputs ==
    SeqsUpTo(QueryChars, MaxQueryLen) \cup TypedAbbreviations \cup TypedExamples
        \cup DOMAIN directionAbbreviations \cup DOMAIN streetTypeAbbreviations

InitBuildSmartQuery ==
    /\ InitSession
    /\ callArg \in {[fn |-> "buildSmartQuery", input |-> x] : x \in QueryInputs}
    /\ callResult = <<>>
    /\ callState = "called"

BuildSmartQueryReturns ==
    /\ callState = "called"
    /\ callArg.fn = "buildSmartQuery"
    /\ callResult' = buildSmartQuery(callArg.input)
    /\ callState' = "returned"
    /\ UNCHANGED <<callArg, session, weather>>

SpecBuildSmartQuery == InitBuildSmartQuery /\ [][BuildSmartQueryReturns]_vars

(***************************************************************************)
(* getWeatherData                                                          *)
(***************************************************************************)
\* a property that is not there, an array element past the end
Undefined == [undefined |-> TRUE]

\* String.prototype.split(c): the pieces between the occurrences of c
RECURSIVE Split(_, _)
Split(s, c) ==
    IF \A i \in 1..Len(s) : s[i] # c THEN <<s>>
    ELSE LET k == CHOOSE i \in 1..Len(s) : s[i] = c /\ \A j \in 1..(i - 1) : s[j] # c
         IN  <<SubSeq(s, 1, k - 1)>> \o Split(SubSeq(s, k + 1, Len(s)), c)

\* hour.padStart(2, '0')
PadStart(s) ==
    IF Len(s) >= 2 THEN s ELSE IF Len(s) = 1 THEN <<"0">> \o s ELSE <<"0", "0">>

\* String.prototype.includes
Includes(t, target) ==
    \E i \in 0..(Len(t) - Len(target)) : SubSeq(t, i + 1, i + Len(target)) = target

\* Array.prototype.findIndex with t => t.includes(targetTime): counted from 0,
\* -1 when no element matches
FindIndex(times, targetTime) ==
    IF \E i \in 1..Len(times) : Includes(times[i], targetTime)
    THEN (CHOOSE i \in 1..Len(times) :
              /\ Includes(times[i], targetTime)
              /\ \A j \in 1..(i - 1) : ~Includes(times[j], targetTime)) - 1
    ELSE -1

\* array[idx], idx counted from 0
At(array, idx) == IF idx + 1 \in DOMAIN array THEN array[idx + 1] ELSE Undefined

\* the function without its check of the index
NotFoundNever(idx) == FALSE

\* if (idx === -1)
NotFound(idx) == idx = -1

\* getWeatherData once response.json() has given data; of the 26 hourly
\* parameters temperature_2m stands for all, and the fixed units are left out
getWeatherData(date, time, data) ==
    LET hour       == Split(time, ":")[1]
        minute     == Split(time, ":")[2]
        targetTime == PadStart(hour) \o <<":", "0", "0">>
    IN  IF data.hourly = Undefined THEN [error |-> "TypeError"]
        ELSE LET idx == FindIndex(data.hourly.time, targetTime)
             IN  IF NotFound(idx) THEN [error |-> "Error"]
                 ELSE [requested_time |-> date \o <<" ">> \o hour \o <<":">> \o minute,
                       hourly_data |-> [time |-> At(data.hourly.time, idx),
                                        temperature_2m |-> At(data.hourly.temperature_2m, idx)]]

\* the entries of hourly.time tried in one response
MaxHours == 3

\* the date of the date picker
RequestedDate == <<"2", "0", "2", "4", "-", "0", "1", "-", "1", "5">>

\* values of the time picker, "HH:MM", and times with a one-digit hour
RequestedTimes ==
    { <<"0", "9", ":", "3", "0">>,
      <<"9", ":", "3", "0">>,
      <<"1", "4", ":", "0", "0">>,
      <<"0", "0", ":", "1", "5">>,
      <<"1", "0", ":", "5", "9">>,
      <<"2", "3", ":", "1", "0">> }

\* timestamps of the requested date, as the provider writes them
Timestamps ==
    { <<"2", "0", "2", "4", "-", "0", "1", "-", "1", "5", "T", "0", "0", ":", "0", "0">>,
      <<"2", "0", "2", "4", "-", "0", "1", "-", "1", "5", "T", "0", "9", ":", "0", "0">>,
      <<"2", "0", "2", "4", "-", "0", "1", "-", "1", "5", "T", "1", "0", ":", "0", "0">>,
      <<"2", "0", "2", "4", "-", "0", "1", "-", "1", "5", "T", "1", "4", ":", "0", "0">> }

\* what response.json() gives: the hourly arrays of the requested date, or an
\* error object with no hourly property
WeatherResponses ==
    {[hourly |-> [time |-> ts, temperature_2m |-> [i \in 1..Len(ts) |-> 10 + i]]] :
        ts \in SeqsUpTo(Timestamps, MaxHours)}
        \cup {[hourly |-> Undefined]}

InitGetWeatherData ==
    /\ InitSession
    /\ callArg \in {[fn |-> "getWeatherData", date |-> RequestedDate, time |-> t, data |-> d] :
                       t \in RequestedTimes, d \in WeatherResponses}
    /\ callResult = <<>>
    /\ callState = "called"

GetWeatherDataReturns ==
    /\ callState = "called"
    /\ callArg.fn = "getWeatherData"
    /\ callResult' = getWeatherData(callArg.date, callArg.time, callArg.data)
    /\ callState' = "returned"
    /\ UNCHANGED <<callArg, session, weather>>

SpecGetWeatherData == InitGetWeatherData /\ [][GetWeatherDataReturns]_vars


(***************************************************************************)
(* Properties                                                              *)
(***************************************************************************)
\* the lookups in flight that nobody aborted
Live == {r \in requests : ~r.aborted}

\* the step is an input event
InputStep == inputCount' = inputCount + 1

\* the step settles the promise of a lookup in this way
Settles(kind) ==
    /\ Len(outcomes') = Len(outcomes) + 1
    /\ outcomes'[Len(outcomes')].kind = kind

\* C1: a lookup is only ever issued for the input event that is the latest one
\* when its debounce timer fires, once per input event, with that event's text:
\* of two input events of length >= 3 less than 300 ms apart, the first never
\* gets a lookup and the second gets the only one.
C1_OnlyLatestInputLooksUp ==
    \A i \in 1..Len(issued) :
        /\ issued[i].ev = issued[i].at
        /\ issued[i].val = inputs[issued[i].ev]
        /\ issued[i].q = buildSmartQuery(inputs[issued[i].ev])
        /\ \A j \in 1..Len(issued) : issued[j].ev = issued[i].ev => j = i

\* two different inputs of length >= 3, the second before the first one's timer
\* fired, and the one lookup issued is the second one's
C1_Witness ==
    /\ inputCount = 2
    /\ Len(inputs[1]) >= 3 /\ Len(inputs[2]) >= 3 /\ inputs[1] # inputs[2]
    /\ Len(issued) = 1
    /\ issued[1].ev = 2 /\ issued[1].val = inputs[2]

\* C2: every call of the results sink delivers the lookup of the most recent
\* input event, also when the transport does not act on abort().
C2_SinkOnlyFromLatestInput ==
    \A i \in 1..Len(sink) : sink[i].ev = sink[i].at

\* at most one pending timer, at most one lookup in flight that nobody aborted
C3_AtMostOne == Cardinality(timers) <= 1 /\ Cardinality(Live) <= 1

\* an input event leaves no timer but its own and no lookup unaborted
C3_InputClears ==
    InputStep => /\ \A t \in timers' : t.id = inputCount'
                 /\ Live' = {}

\* C3: at most one debounce timer is pending and at most one lookup that was
\* not aborted is in flight, and an input event leaves no older timer pending
\* and no older lookup unaborted.
C3_SingleFlight == []C3_AtMostOne /\ [][C3_InputClears]_vars

\* an input event has aborted the lookup in flight and started the only timer
C3_Witness ==
    /\ Cardinality(timers) = 1
    /\ \E r \in requests : r.aborted
    /\ Live = {}

\* C4: after a suggestion is selected and until the next input event, no lookup
\* that completes calls the results sink or puts anything in the suggestions list.
C4_SelectionDiscardsLookup ==
    [][sinceSelect /\ sinceSelect' =>
          /\ sink' = sink
          /\ suggestions' = <<>>
          /\ noAddressesShown' = FALSE]_vars

\* the lookup of the latest input was in flight when a suggestion was selected
\* and has completed since
C4_Witness ==
    /\ sinceSelect
    /\ outcomes # <<>>
    /\ outcomes[Len(outcomes)].ev = inputCount
    /\ outcomes[Len(outcomes)].kind = "AbortError"
    /\ suggestions = <<>>

\* C5: from the selection of a suggestion until the next input event no
\* debounce timer is pending and no lookup is in flight.
C5_SelectionCancelsTimerAndRequest ==
    sinceSelect => timers = {} /\ Live = {}

\* what handling an input event shorter than 3 characters leaves
C6_ShortInputStep ==
    InputStep /\ Len(inputs'[inputCount']) < 3 =>
        /\ timers' = {}
        /\ searchTimeout' = 0
        /\ Live' = {}
        /\ issued' = issued
        /\ suggestions' = <<>>
        /\ status' = Idle

\* no timer and no lookup belongs to an input event shorter than 3 characters
C6_NoLookupForShortInput ==
    /\ \A i \in 1..Len(issued) : Len(inputs[issued[i].ev]) >= 3
    /\ \A t \in timers : Len(inputs[t.id]) >= 3

\* C6: an input event shorter than 3 characters once trimmed starts no timer and
\* issues no lookup, and leaves the suggestions empty, the indicator idle, no
\* timer pending and no lookup unaborted.
C6_ShortInputSearchesNothing == []C6_NoLookupForShortInput /\ [][C6_ShortInputStep]_vars

\* a short input event arrived while a timer was pending, and cleared it
C6_Witness ==
    /\ inputCount >= 2
    /\ Len(inputs[inputCount]) < 3
    /\ Len(inputs[inputCount - 1]) >= 3
    /\ issued = <<>>
    /\ timers = {}
    /\ status = Idle

\* C7: no lookup is issued with an empty normalized query.
C7_NoEmptyQuery ==
    \A i \in 1..Len(issued) : issued[i].q # <<>>

\* C8: a lookup that ends with an AbortError reports nothing to console.error,
\* does not call the results sink and leaves the suggestions alone; it sets the
\* status indicator to idle.
C8_CancellationIsSilent ==
    [][Settles("AbortError") =>
          /\ errors' = errors
          /\ sink' = sink
          /\ suggestions' = suggestions
          /\ noAddressesShown' = noAddressesShown
          /\ status' = Idle]_vars

\* an aborted lookup has ended and nothing was ever reported
C8_Witness ==
    /\ \E i \in 1..Len(outcomes) : outcomes[i].kind = "AbortError"
    /\ errors = <<>>

\* C9: a lookup that fails with another error is reported to console.error
\* once, the status indicator becomes idle, the results sink is not called and
\* the current-request handle is null.
C9_FailureIsReported ==
    [][Settles("TypeError") =>
          /\ errors' = Append(errors, [ev |-> outcomes'[Len(outcomes')].ev, name |-> "TypeError"])
          /\ sink' = sink
          /\ suggestions' = suggestions
          /\ status' = Idle
          /\ currentSearchRequest' = 0]_vars

\* a lookup has failed and was reported
C9_Witness ==
    /\ \E i \in 1..Len(outcomes) : outcomes[i].kind = "TypeError"
    /\ errors # <<>>
    /\ status = Idle
    /\ currentSearchRequest = 0

\* the search of the latest input event is under way: the event had 3
\* characters or more, its lookup has not ended, no suggestion was selected
SearchUnderWay ==
    /\ inputCount > 0
    /\ Len(inputs[inputCount]) >= 3
    /\ ~sinceSelect
    /\ \A i \in 1..Len(outcomes) : outcomes[i].ev # inputCount

\* C10: while the search of the latest input event is under way the status
\* indicator shows searching.
C10_SearchingWhileUnderWay ==
    SearchUnderWay => status = Loading


\* the step passes results to the results sink
Delivers == Len(sink') = Len(sink) + 1

\* C11 as stated: the status indicator is idle or searching, nothing else.
C11_IdleOrSearchingOnly == status \in {Idle, Loading}

\* how the status indicator changes in one step
C11_StatusStep ==
    /\ status' = Loading /\ status # Loading =>
           InputStep /\ Len(inputs'[inputCount']) >= 3
    /\ status' = Success /\ status # Success =>
           Delivers /\ Len(sink'[Len(sink')].results) > 0
    /\ Delivers =>
           status' = (IF Len(sink'[Len(sink')].results) = 0 THEN Idle ELSE Success)
    /\ status' = Idle /\ status # Idle =>
           \/ InputStep /\ Len(inputs'[inputCount']) < 3
           \/ Len(outcomes') = Len(outcomes) + 1
           \/ sinceSelect'
           \/ successTimers' = successTimers - 1

\* C11 (amended): the status indicator is idle, searching or success; it becomes
\* searching only on an input event of length >= 3 and success only when a
\* non-empty result is passed to the results sink, and goes back to idle on a
\* short input, a lookup that ends, a selection or the 2-second timer; right
\* after results are passed to the sink it is success, or idle when they are empty.
C11_StatusMachine == [](status \in {Idle, Loading, Success}) /\ [][C11_StatusStep]_vars

\* non-empty results were delivered and the checkmark is shown
C11_Witness ==
    /\ status = Success
    /\ sink # <<>>
    /\ Len(sink[Len(sink)].results) > 0

\* C12: every input event leaves the latch false, and a lookup that resolves
\* when no suggestion was selected since the last input event is passed to the
\* results sink.
C12_InputResetsLatch ==
    [][/\ InputStep => ~isLocationSelected'
       /\ Settles("resolved") /\ ~sinceSelect =>
              /\ Delivers
              /\ sink'[Len(sink')].ev = outcomes'[Len(outcomes')].ev]_vars

\* a suggestion was selected, an input event of length >= 3 followed, and the
\* results of its lookup were delivered
C12_Witness ==
    /\ selectedAddress # NoSelection
    /\ ~sinceSelect
    /\ inputCount > 0
    /\ Len(inputs[inputCount]) >= 3
    /\ sink # <<>>
    /\ sink[Len(sink)].ev = inputCount


\* searchAddresses has returned
SearchReturned == callState = "returned" /\ callArg.fn = "searchAddresses"

\* a returned record as the provider sent it
WithoutDistance(place) == [f \in DOMAIN place \ {"distance"} |-> place[f]]

\* the three conditions of the filtering policy
C13_Kept(place) ==
    /\ place.address # NoAddress
    /\ place.type \notin {"administrative", "state", "country", "city", "county", "region"}
    /\ \/ place.address.road # ""
       \/ place.address.building # ""
       \/ place.address.amenity # ""
       \/ place.address.shop # ""
       \/ place.address.office # ""
       \/ place.address.house_number # ""

\* C13: the records returned are exactly the records of the response that have
\* an address breakdown, a type that is none of the six area types, and a road
\* or a building, amenity, shop, office or house number.
C13_FilterKeepsExactly ==
    SearchReturned =>
        LET data == callArg.data
        IN  /\ Len(callResult) = Cardinality({i \in 1..Len(data) : C13_Kept(data[i])})
            /\ \A i \in 1..Len(data) :
                   C13_Kept(data[i]) <=>
                       \E j \in 1..Len(callResult) : WithoutDistance(callResult[j]) = data[i]

\* a city with a road was dropped, a record with only a state was dropped, and
\* a house with a road was kept
C13_Witness ==
    /\ SearchReturned
    /\ \E i \in 1..Len(callArg.data) :
           /\ callArg.data[i].type = "city"
           /\ callArg.data[i].address = Address("9", "Elm Street", "", "Ohio")
    /\ \E i \in 1..Len(callArg.data) :
           /\ callArg.data[i].type = "house"
           /\ callArg.data[i].address = Address("", "", "", "Ohio")
    /\ Len(callArg.data) = 2
    /\ callResult = <<>>

\* the distance of a returned record from the reference of the call
C14_Distance(place) ==
    getDistance(callArg.userLocation.latitude, callArg.userLocation.longitude,
                parseFloat(place.lat), parseFloat(place.lon))

\* C14: with a reference coordinate the records returned are in non-decreasing
\* distance from it, and records equally far keep the order of the response.
C14_SortedAndStable ==
    SearchReturned /\ callArg.userLocation # NoLocation =>
        /\ \A i, j \in 1..Len(callResult) :
               i < j => C14_Distance(callResult[i]) <= C14_Distance(callResult[j])
        /\ \A d \in {C14_Distance(callResult[i]) : i \in 1..Len(callResult)} :
               LET AtD(place) == C14_Distance(place) = d
                   resultAtD  == SelectSeq(callResult, AtD)
                   keptAtD    == SelectSeq(SelectSeq(callArg.data, C13_Kept), AtD)
               IN  [i \in 1..Len(resultAtD) |-> WithoutDistance(resultAtD[i])] = keptAtD

\* C15: the records returned carry a distance exactly when a reference
\* coordinate was supplied.
C15_DistanceIffReference ==
    SearchReturned =>
        \A i \in 1..Len(callResult) :
            ("distance" \in DOMAIN callResult[i]) <=> (callArg.userLocation # NoLocation)

\* C16: without a reference coordinate the records returned are the records of
\* the response that pass the filter, in the order of the response.
C16_ProviderOrderWithoutReference ==
    SearchReturned /\ callArg.userLocation = NoLocation =>
        callResult = SelectSeq(callArg.data, C13_Kept)

\* no reference, a response of three with a city in the middle: the other two
\* are returned as they came, the farther one first
C16_Witness ==
    /\ SearchReturned
    /\ callArg.userLocation = NoLocation
    /\ callArg.data = <<HouseFar, CityHit, HouseNear>>
    /\ callResult = <<HouseFar, HouseNear>>

\* a call of buildSmartQuery that has returned
QueryReturned == callState = "returned" /\ callArg.fn = "buildSmartQuery"

\* the answer to one typed text, once the call has returned
Answers(input, query) == (QueryReturned /\ callArg.input = input) => callResult = query

\* C17, as stated: normalize("123 Main St.") is "123 main street" and
\* normalize("N Elm Ave") is "north elm avenue".
C17_ExamplesWithoutWildcard ==
    /\ Answers(<<"1", "2", "3", " ", "M", "a", "i", "n", " ", "S", "t", ".">>, <<"1", "2", "3", " ", "m", "a", "i", "n", " ", "s", "t", "r", "e", "e", "t">>)
    /\ Answers(<<"N", " ", "E", "l", "m", " ", "A", "v", "e">>, <<"n", "o", "r", "t", "h", " ", "e", "l", "m", " ", "a", "v", "e", "n", "u", "e">>)

\* C17, amended: "main" and "elm" are alphabetic words of two to four letters
\* and carry the wildcard, so normalize("123 Main St.") is "123 main* street"
\* and normalize("N Elm Ave") is "north elm* avenue".
C17_ExamplesWithWildcard ==
    /\ Answers(<<"1", "2", "3", " ", "M", "a", "i", "n", " ", "S", "t", ".">>, <<"1", "2", "3", " ", "m", "a", "i", "n", "*", " ", "s", "t", "r", "e", "e", "t">>)
    /\ Answers(<<"N", " ", "E", "l", "m", " ", "A", "v", "e">>, <<"n", "o", "r", "t", "h", " ", "e", "l", "m", "*", " ", "a", "v", "e", "n", "u", "e">>)

C17_Witness ==
    /\ QueryReturned
    /\ callArg.input = <<"1", "2", "3", " ", "M", "a", "i", "n", " ", "S", "t", ".">>
    /\ callResult = <<"1", "2", "3", " ", "m", "a", "i", "n", "*", " ", "s", "t", "r", "e", "e", "t">>

\* the typed text is one token: no comma and no white space in it
OneToken(input) == \A i \in 1..Len(input) : input[i] # "," /\ ~IsSpace(input[i])

\* the cleaned token of a one-token text
Cleaned(input) == ToLowerCase(CleanWord(input))

CompassAbbreviations == {<<"n">>, <<"s">>, <<"e">>, <<"w">>, <<"n", "e">>, <<"n", "w">>, <<"s", "e">>, <<"s", "w">>}

StreetAbbreviations ==
    {<<"s", "t">>,
     <<"a", "v", "e">>,
     <<"a", "v">>,
     <<"b", "l", "v", "d">>,
     <<"d", "r">>,
     <<"r", "d">>,
     <<"l", "n">>,
     <<"c", "t">>,
     <<"c", "i", "r">>,
     <<"p", "l">>,
     <<"p", "k", "w", "y">>,
     <<"h", "w", "y">>,
     <<"s", "q">>,
     <<"t", "e", "r">>,
     <<"t", "r", "l">>,
     <<"w", "a", "y">>}

TakesWildcard(token) ==
    /\ Len(token) \in 2..4
    /\ \A i \in 1..Len(token) : token[i] \in LowerLetters
    /\ token \notin CompassAbbreviations \cup StreetAbbreviations

HasWildcard(query) == \E i \in 1..Len(query) : query[i] = "*"

\* C18: a cleaned token comes out with exactly one trailing "*" if and only if
\* it is purely alphabetic, two to four characters long and no compass or
\* street-type abbreviation; every other token comes out with no "*" at all.
C18_WildcardIffShortWord ==
    (QueryReturned /\ OneToken(callArg.input) /\ Cleaned(callArg.input) # <<>>) =>
        IF TakesWildcard(Cleaned(callArg.input))
        THEN callResult = Cleaned(callArg.input) \o <<"*">>
        ELSE ~HasWildcard(callResult)

C18_Witness ==
    /\ QueryReturned
    /\ callArg.input = <<"t", "s">>
    /\ callResult = <<"t", "s", "*">>

\* the full word the documentation gives for an abbreviation
FullWord(token) ==
    CASE token = <<"n">> -> <<"n", "o", "r", "t", "h">>
      [] token = <<"s">> -> <<"s", "o", "u", "t", "h">>
      [] token = <<"e">> -> <<"e", "a", "s", "t">>
      [] token = <<"w">> -> <<"w", "e", "s", "t">>
      [] token = <<"n", "e">> -> <<"n", "o", "r", "t", "h", "e", "a", "s", "t">>
      [] token = <<"n", "w">> -> <<"n", "o", "r", "t", "h", "w", "e", "s", "t">>
      [] token = <<"s", "e">> -> <<"s", "o", "u", "t", "h", "e", "a", "s", "t">>
      [] token = <<"s", "w">> -> <<"s", "o", "u", "t", "h", "w", "e", "s", "t">>
      [] token = <<"s", "t">> -> <<"s", "t", "r", "e", "e", "t">>
      [] token = <<"a", "v", "e">> -> <<"a", "v", "e", "n", "u", "e">>
      [] token = <<"a", "v">> -> <<"a", "v", "e", "n", "u", "e">>
      [] token = <<"b", "l", "v", "d">> -> <<"b", "o", "u", "l", "e", "v", "a", "r", "d">>
      [] token = <<"d", "r">> -> <<"d", "r", "i", "v", "e">>
      [] token = <<"r", "d">> -> <<"r", "o", "a", "d">>
      [] token = <<"l", "n">> -> <<"l", "a", "n", "e">>
      [] token = <<"c", "t">> -> <<"c", "o", "u", "r", "t">>
      [] token = <<"c", "i", "r">> -> <<"c", "i", "r", "c", "l", "e">>
      [] token = <<"p", "l">> -> <<"p", "l", "a", "c", "e">>
      [] token = <<"p", "k", "w", "y">> -> <<"p", "a", "r", "k", "w", "a", "y">>
      [] token = <<"h", "w", "y">> -> <<"h", "i", "g", "h", "w", "a", "y">>
      [] token = <<"s", "q">> -> <<"s", "q", "u", "a", "r", "e">>
      [] token = <<"t", "e", "r">> -> <<"t", "e", "r", "r", "a", "c", "e">>
      [] token = <<"t", "r", "l">> -> <<"t", "r", "a", "i", "l">>
      [] token = <<"w", "a", "y">> -> <<"w", "a", "y">>
      [] OTHER -> <<>>

\* C19: a token equal, after cleaning and in any case, to a compass or
\* street-type abbreviation is replaced by its full word with no wildcard, so
\* normalize("St") is "street".
C19_AbbreviationBeforeWildcard ==
    /\ (QueryReturned /\ OneToken(callArg.input)
            /\ Cleaned(callArg.input) \in CompassAbbreviations \cup StreetAbbreviations) =>
          /\ callResult = FullWord(Cleaned(callArg.input))
          /\ ~HasWildcard(callResult)
    /\ Answers(<<"S", "t">>, <<"s", "t", "r", "e", "e", "t">>)

C19_Witness ==
    /\ QueryReturned
    /\ callArg.input = <<"S", "t">>
    /\ callResult = <<"s", "t", "r", "e", "e", "t">>

\* C20: for every input the normalized query is lowercase tokens separated by
\* exactly one space, with no leading or trailing space, and no token holds a
\* comma or white space.
C20_LowercaseTokensSingleSpaces ==
    QueryReturned =>
        /\ \A i \in 1..Len(callResult) :
              /\ callResult[i] \notin UpperLetters
              /\ callResult[i] # ","
              /\ IsSpace(callResult[i]) => callResult[i] = " "
        /\ callResult # <<>> => callResult[1] # " " /\ callResult[Len(callResult)] # " "
        /\ \A i \in 1..(Len(callResult) - 1) :
              ~(callResult[i] = " " /\ callResult[i + 1] = " ")

\* the typed text has a letter or a digit in it
HasAlphanumeric(input) ==
    \E i \in 1..Len(input) : input[i] \in LowerLetters \cup UpperLetters \cup Digits

\* C21: an input that is empty, or white space and punctuation only (no
\* letter, no digit), normalizes to the empty string, and the normalized query
\* is empty for such inputs only.
C21_EmptyIffNoAlphanumeric ==
    QueryReturned => (callResult = <<>> <=> ~HasAlphanumeric(callArg.input))

\* the step completes a search: the lookup resolved and the latch does not
\* discard its result
CompletesSearch == Settles("resolved") /\ ~isLocationSelected

\* C22: a completed search whose filtered result is empty is a normal outcome
\* and no failure: the results sink is called with the empty sequence, nothing
\* goes to console.error, the "no valid addresses" message is shown and the
\* status indicator is idle.
C22_EmptyResultIsNormal ==
    [][CompletesSearch =>
          /\ Len(sink') = Len(sink) + 1
          /\ \E r \in requests \ requests' : \E data \in Responses :
                sink'[Len(sink')].results = FilterAndRank(data, r.userLocation)
          /\ sink'[Len(sink')].results = <<>> =>
                /\ errors' = errors
                /\ noAddressesShown'
                /\ suggestions' = <<>>
                /\ status' = Idle]_vars

\* the latest call of the results sink had the empty sequence, the message is
\* on show and nothing was reported
C22_Witness ==
    /\ sink # <<>>
    /\ sink[Len(sink)].results = <<>>
    /\ outcomes[Len(outcomes)] = [ev |-> sink[Len(sink)].ev, kind |-> "resolved"]
    /\ noAddressesShown
    /\ status = Idle
    /\ errors = <<>>

\* the smaller of two numbers
Min(a, b) == IF a < b THEN a ELSE b

\* the number of candidates of a response the filter keeps
Candidates(data) == Cardinality({i \in 1..Len(data) : C13_Kept(data[i])})

\* C23: of the n candidates of a search result the first min(10, n) are
\* displayed as suggestions, in ranked order, and the results sink receives
\* the full filtered sequence of n candidates.
C23_TenShownAllPassedOn ==
    [][CompletesSearch =>
          LET results == sink'[Len(sink')].results
          IN  /\ Len(sink') = Len(sink) + 1
              /\ \E r \in requests \ requests' : \E data \in Responses \cup ManyResponses :
                    /\ results = FilterAndRank(data, r.userLocation)
                    /\ Len(results) = Candidates(data)
              /\ Len(suggestions') = Min(10, Len(results))
              /\ \A i \in 1..Len(suggestions') : suggestions'[i] = results[i]]_vars

\* a result of 11 candidates went to the results sink, 10 of them are on show
C23_Witness ==
    /\ sink # <<>>
    /\ Len(sink[Len(sink)].results) = 11
    /\ Len(suggestions) = 10
    /\ suggestions = SubSeq(sink[Len(sink)].results, 1, 10)

\* the reports of the catch block of loadUserLocation
GeolocationErrors == {i \in 1..Len(errors) : errors[i].name = "IP geolocation error"}

\* the candidates of a response in the provider's order, no distance on them
Unranked(data) == SelectSeq(data, C13_Kept)

\* C24: once the geolocation call has failed the failure has been caught and
\* reported and the reference stays null: every lookup is issued with no
\* reference, and the results delivered are in the provider's order with no
\* distance set.
C24_SearchWithoutReference ==
    geolocation = "failed" =>
        /\ userLocation = NoLocation
        /\ Cardinality(GeolocationErrors) = 1
        /\ \A r \in requests : r.userLocation = NoLocation
        /\ \A i \in 1..Len(sink) : \E data \in Responses : sink[i].results = Unranked(data)

\* the geolocation call failed, an input event came after that, its lookup was
\* issued and two candidates were delivered in the provider's order
C24_Witness ==
    /\ geolocation = "failed"
    /\ \E e \in GeolocationErrors : \E j \in 1..Len(issued) : \E k \in 1..Len(sink) :
          /\ issued[j].ev > errors[e].at
          /\ sink[k].ev = issued[j].ev
          /\ sink[k].results = <<HouseFar, HouseNear>>

\* a call of getDistance that has returned
DistanceReturned == callState = "returned" /\ callArg.fn = "getDistance"

\* C25: the distance is a number not below 0, it is 0 when the two coordinates
\* are equal, and it is the same in both directions.
C25_DistanceNonNegativeSymmetric ==
    DistanceReturned =>
        /\ callResult # NaN
        /\ callResult >= 0
        /\ callArg.a = callArg.b => callResult = 0
        /\ callResult = getDistance(callArg.b.latitude, callArg.b.longitude,
                                    callArg.a.latitude, callArg.a.longitude)

\* the n-th input event is the latest one and has 3 characters or more
C26_Typed(n) == inputCount = n /\ Len(inputs[n]) >= 3

\* an input event or a selection came after the n-th input event
C26_Overtaken(n) == inputCount > n \/ sinceSelect

\* the lookup of the n-th input event was issued, its outcome was handled and
\* the status indicator is idle
C26_Settled(n) ==
    /\ \E i \in 1..Len(issued) : issued[i].ev = n
    /\ \E i \in 1..Len(outcomes) : outcomes[i].ev = n
    /\ status = Idle

\* C26: after an input event of trimmed length >= 3, if no input event and no
\* selection follows and the geocoder responds, a lookup is eventually issued
\* for that input, its outcome is eventually handled, and the status
\* indicator eventually becomes idle and stays idle.
C26_SearchSettles ==
    /\ \A n \in 1..MaxInputsFair :
          C26_Typed(n) ~> (C26_Overtaken(n) \/ C26_Settled(n))
    /\ [][\A n \in 1..MaxInputsFair :
             (C26_Typed(n) /\ C26_Settled(n)) => (C26_Overtaken(n) \/ C26_Settled(n))']_vars

\* the search of the latest input event went all the way: candidates were
\* delivered, the checkmark was shown and has gone
C26_Witness ==
    /\ inputCount > 0
    /\ C26_Typed(inputCount)
    /\ ~C26_Overtaken(inputCount)
    /\ C26_Settled(inputCount)
    /\ \E i \in 1..Len(sink) : sink[i].ev = inputCount /\ sink[i].results # <<>>
    /\ successTimers = 0

\* C27: the lookup issued when a debounce timer fires has the text of the
\* input event that set the timer and the reference coordinate known when the
\* timer fires; a reference that arrives between the input event and the
\* timer is used for that lookup.
C27_TextOfInputReferenceOfFiring ==
    [][Len(issued') = Len(issued) + 1 =>
          LET lookup == issued'[Len(issued')]
          IN  /\ lookup.val = inputs[lookup.ev]
              /\ \E r \in requests' \ requests :
                    /\ r.id = lookup.ev
                    /\ r.val = inputs[lookup.ev]
                    /\ r.userLocation = userLocation]_vars

\* a lookup is in flight with a reference coordinate that was not known yet
\* when its input event was handled
C27_Witness ==
    \E r \in requests :
        /\ r.atInput = NoLocation
        /\ r.userLocation # NoLocation
        /\ r.val = inputs[r.id]

\* the step is the selection of a suggestion
SelectStep == sinceSelect' /\ ~sinceSelect

\* C28: selecting a suggestion sets the latch, empties the list of suggestions,
\* sets the status indicator to idle and calls the selection sink once, with
\* the numeric latitude and longitude, the display label, the structured
\* address and the place type of the chosen candidate; no other step calls
\* the selection sink.
C28_SelectionHandsOverCandidate ==
    [][/\ SelectStep =>
             /\ isLocationSelected'
             /\ suggestions' = <<>>
             /\ status' = Idle
             /\ \E i \in 1..Len(suggestions) :
                   selectedAddress' = [latitude     |-> parseFloat(suggestions[i].lat),
                                       longitude    |-> parseFloat(suggestions[i].lon),
                                       display_name |-> suggestions[i].display_name,
                                       address      |-> suggestions[i].address,
                                       type         |-> suggestions[i].type]
       /\ selectedAddress' # selectedAddress => SelectStep]_vars

\* the nearer house was selected from a ranked list
C28_Witness ==
    /\ sinceSelect
    /\ isLocationSelected
    /\ suggestions = <<>>
    /\ status = Idle
    /\ \E i \in 1..Len(sink) : \E j \in 1..Len(sink[i].results) :
          /\ sink[i].results[j].display_name = "1 Elm Street"
          /\ "distance" \in DOMAIN sink[i].results[j]
    /\ selectedAddress = [latitude |-> 1, longitude |-> 1, display_name |-> "1 Elm Street",
                          address |-> Address("1", "Elm Street", "", "Ohio"), type |-> "house"]

\* a call of getWeatherData that has returned or thrown
WeatherReturned == callState = "returned" /\ callArg.fn = "getWeatherData"

\* the two digits of the requested hour
RequestedHour(time) ==
    CASE time = <<"0", "9", ":", "3", "0">> -> <<"0", "9">>
      [] time = <<"9", ":", "3", "0">> -> <<"0", "9">>
      [] time = <<"1", "4", ":", "0", "0">> -> <<"1", "4">>
      [] time = <<"0", "0", ":", "1", "5">> -> <<"0", "0">>
      [] time = <<"1", "0", ":", "5", "9">> -> <<"1", "0">>
      [] time = <<"2", "3", ":", "1", "0">> -> <<"2", "3">>

\* the timestamp of the requested hour: HH:00 of the requested date
RequestedTimestamp == callArg.date \o <<"T">> \o RequestedHour(callArg.time) \o <<":", "0", "0">>

\* the entries of the response for the requested hour
EntriesOfRequestedHour ==
    IF callArg.data.hourly = Undefined THEN {}
    ELSE {i \in 1..Len(callArg.data.hourly.time) :
              callArg.data.hourly.time[i] = RequestedTimestamp}

\* C29: the weather lookup returns the one hourly record whose timestamp is
\* the requested hour, or fails with an error when the response has no entry
\* for that hour; it never returns a record built from a missing index.
C29_RecordOfRequestedHourOrError ==
    WeatherReturned =>
        IF EntriesOfRequestedHour = {}
        THEN DOMAIN callResult = {"error"}
        ELSE /\ DOMAIN callResult = {"requested_time", "hourly_data"}
             /\ callResult.hourly_data.time = RequestedTimestamp
             /\ \E i \in EntriesOfRequestedHour :
                   callResult.hourly_data.temperature_2m = callArg.data.hourly.temperature_2m[i]

\* 9:30 was asked for and the record of 09:00, the second entry, came back
C29_Witness ==
    /\ WeatherReturned
    /\ callArg.time = <<"9", ":", "3", "0">>
    /\ callArg.data.hourly # Undefined
    /\ Len(callArg.data.hourly.time) = 3
    /\ callArg.data.hourly.time[1] = RequestedDate \o <<"T", "1", "0", ":", "0", "0">>
    /\ callArg.data.hourly.time[2] = RequestedDate \o <<"T", "0", "9", ":", "0", "0">>
    /\ callArg.data.hourly.time[3] = RequestedDate \o <<"T", "1", "4", ":", "0", "0">>
    /\ callResult.hourly_data =
           [time |-> RequestedDate \o <<"T", "0", "9", ":", "0", "0">>, temperature_2m |-> 12]

\* C30: the current-request handle is non-null exactly when a lookup that was
\* not aborted is in flight; after any outcome of a lookup (delivered,
\* discarded by the latch, cancelled, failed) it is null until the next
\* debounce timer fires.
C30_HandleIffLookupInFlight ==
    currentSearchRequest # 0 <=> (\E r \in Live : r.id = currentSearchRequest)

\* C32: normalization is idempotent: normalizing a normalized query gives the
\* same query again; in particular the word an abbreviation expands to
\* normalizes to itself.
C32_NormalizationIdempotent ==
    QueryReturned => buildSmartQuery(callResult) = callResult

\* the number of positions of a sequence that hold x
Occurrences(seq, x) == Cardinality({i \in DOMAIN seq : seq[i] = x})

\* two sequences with the same elements, each as many times
Permutation(s, t) ==
    /\ Len(s) = Len(t)
    /\ \A i \in DOMAIN s : Occurrences(s, s[i]) = Occurrences(t, s[i])

\* the returned records as the provider sent them
ReturnedPlaces == [i \in DOMAIN callResult |-> WithoutDistance(callResult[i])]

\* C33: ranking never adds or drops candidates: for the same provider
\* response, the result returned with a reference coordinate is a permutation
\* of the result returned without one.
C33_RankingIsPermutation ==
    SearchReturned =>
        Permutation(ReturnedPlaces, FilterAndRank(callArg.data, NoLocation))

\* ranked from (1, 1), the far house sent first comes back after the near one
C33_Witness ==
    /\ SearchReturned
    /\ callArg.userLocation = [latitude |-> 1, longitude |-> 1]
    /\ callArg.data = <<HouseFar, CityHit, HouseNear>>
    /\ ReturnedPlaces = <<HouseNear, HouseFar>>
\* C31: once all weather requests have completed, the weather display shows the
\* data, or the error, of the most recently selected address; a slower response
\* for an earlier selection never overwrites the result of a later selection.
C31_DisplayOfLatestSelection ==
    (selectedAddress # NoSelection /\ weatherRequests = EmptyBag) =>
        /\ weatherDisplay # NoWeather
        /\ weatherDisplay.request.latitude = selectedAddress.latitude
        /\ weatherDisplay.request.longitude = selectedAddress.longitude

====
